---------------------------- MODULE Spec2Model ----------------------------
(***************************************************************************)
(* SelectBuilder of sql_query_builder (src/src/select/select.rs).          *)
(*                                                                         *)
(* A text (Rust &str / String) is a sequence of characters, each character *)
(* a one-element string.  A builder is a record with the fields of         *)
(* SelectBuilder.  Every method of the impl block is an operator with the  *)
(* method's name; every call of a method on the builder under construction *)
(* is an action.  push_unique, the Formatter, Concat and colorize live in  *)
(* modules the impl block imports (behavior, fmt, structure); they are     *)
(* written here as the specification describes them, and render the        *)
(* expected strings of tests/select_builder_features.rs.                   *)
(***************************************************************************)
EXTENDS Naturals, Sequences, FiniteSets

VARIABLES
  heap,       \* the builders alive: heap[a] is the value stored at address a
  cur,        \* address of the builder the chain of calls is applied to
  originals,  \* builders a clone was taken from: [addr, sql at clone time]
  stdout,     \* the lines println! wrote
  returned,   \* the String the last as_string() call returned
  log,        \* history: per target list, the arguments of the calls made
  fuel        \* calls the chain may still make

vars == <<heap, cur, originals, stdout, returned, log, fuel>>

(***************************************************************************)
(* Bounds.                                                                 *)
(***************************************************************************)
MaxCalls == 3         \* calls of a chain of dedup setters
MaxScalarCalls == 4   \* calls of a chain of limit / offset
MaxRawCalls == 2      \* calls of a chain of raw setters
MaxSetOpCalls == 3    \* calls of a chain of set operators
MaxCloneCalls == 3    \* calls of a chain with clones
MaxTerminalCalls == 3 \* calls of a chain with terminal calls
MaxAllCalls == 1      \* calls of a chain of any setters

(***************************************************************************)
(* Texts.                                                                  *)
(***************************************************************************)
WHITE_SPACE == {" ", "\t", "\n"}

RECURSIVE trim_start(_)
trim_start(s) ==
  IF s # <<>> /\ Head(s) \in WHITE_SPACE THEN trim_start(Tail(s)) ELSE s

RECURSIVE trim_end(_)
trim_end(s) ==
  IF s # <<>> /\ s[Len(s)] \in WHITE_SPACE
    THEN trim_end(SubSeq(s, 1, Len(s) - 1))
    ELSE s

trim(s) == trim_end(trim_start(s))

\* [String]::join(sep)
RECURSIVE join(_, _)
join(list, sep) ==
  IF list = <<>> THEN <<>>
  ELSE IF Len(list) = 1 THEN list[1]
  ELSE list[1] \o sep \o join(Tail(list), sep)

\* text occurs in s as a contiguous run of characters
IsInfix(text, s) ==
  \E i \in 0..(Len(s) - Len(text)) : SubSeq(s, i + 1, i + Len(text)) = text

\* number of places of s where text starts
Occurrences(text, s) ==
  Cardinality({i \in 0..(Len(s) - Len(text)) : SubSeq(s, i + 1, i + Len(text)) = text})

(***************************************************************************)
(* behavior::push_unique                                                   *)
(***************************************************************************)
push_unique(list, value) ==
  IF \E i \in 1..Len(list) : list[i] = value THEN list ELSE Append(list, value)

(***************************************************************************)
(* fmt::Formatter                                                          *)
(***************************************************************************)
one_line ==
  [comma |-> <<",", " ">>, indent |-> <<>>, lb |-> <<>>, space |-> <<" ">>]

multi_line ==
  [comma |-> <<",", " ">>, indent |-> <<"\t">>, lb |-> <<"\n">>, space |-> <<" ">>]

(***************************************************************************)
(* structure::SelectClause, in the order the clauses are rendered.         *)
(***************************************************************************)
SelectClause ==
  {"With", "Select", "From", "Join", "Where", "GroupBy", "Having", "OrderBy",
   "Limit", "Offset", "Except", "Intersect", "Union"}

(***************************************************************************)
(* structure::SelectBuilder and SelectBuilder::new (Self::default()).      *)
(***************************************************************************)
new ==
  [_except |-> <<>>, _from |-> <<>>, _group_by |-> <<>>, _having |-> <<>>,
   _intersect |-> <<>>, _join |-> <<>>, _limit |-> <<>>, _offset |-> <<>>,
   _order_by |-> <<>>, _raw |-> <<>>, _raw_after |-> <<>>, _raw_before |-> <<>>,
   _select |-> <<>>, _union |-> <<>>, _where |-> <<>>, _with |-> <<>>]

(***************************************************************************)
(* The setters.                                                            *)
(***************************************************************************)
where_clause(self, condition) ==
  [self EXCEPT !._where = push_unique(@, trim(condition))]

and(self, condition) == where_clause(self, condition)

except(self, select) == [self EXCEPT !._except = Append(@, select)]

\* from moving a fragment pushed again to the end
from_move_to_end(self, tables) ==
  [self EXCEPT !._from = Append(SelectSeq(@, LAMBDA x : x # trim(tables)), trim(tables))]

from(self, tables) == [self EXCEPT !._from = push_unique(@, trim(tables))]

group_by(self, column) == [self EXCEPT !._group_by = push_unique(@, trim(column))]

having(self, condition) == [self EXCEPT !._having = push_unique(@, trim(condition))]

cross_join(self, table) ==
  [self EXCEPT !._join =
     push_unique(@, <<"C", "R", "O", "S", "S", " ", "J", "O", "I", "N", " ">> \o trim(table))]

inner_join(self, table) ==
  [self EXCEPT !._join =
     push_unique(@, <<"I", "N", "N", "E", "R", " ", "J", "O", "I", "N", " ">> \o trim(table))]

\* left_join composing the keyword of inner_join
left_join_as_inner(self, table) ==
  [self EXCEPT !._join =
     push_unique(@, <<"I", "N", "N", "E", "R", " ", "J", "O", "I", "N", " ">> \o trim(table))]

left_join(self, table) ==
  [self EXCEPT !._join =
     push_unique(@, <<"L", "E", "F", "T", " ", "J", "O", "I", "N", " ">> \o trim(table))]

right_join(self, table) ==
  [self EXCEPT !._join =
     push_unique(@, <<"R", "I", "G", "H", "T", " ", "J", "O", "I", "N", " ">> \o trim(table))]

intersect(self, select) == [self EXCEPT !._intersect = Append(@, select)]

\* limit keeping a value already set
limit_keep_first(self, num) ==
  IF self._limit = <<>> THEN [self EXCEPT !._limit = trim(num)] ELSE self

limit(self, num) == [self EXCEPT !._limit = trim(num)]

\* offset assigning the field of limit
offset_as_limit(self, num) == [self EXCEPT !._limit = trim(num)]

offset(self, num) == [self EXCEPT !._offset = trim(num)]

order_by(self, column) == [self EXCEPT !._order_by = push_unique(@, trim(column))]

raw(self, raw_sql) == [self EXCEPT !._raw = push_unique(@, trim(raw_sql))]

\* raw_after pushing like raw does
raw_after_unique(self, clause, raw_sql) ==
  [self EXCEPT !._raw_after = push_unique(@, <<clause, trim(raw_sql)>>)]

raw_after(self, clause, raw_sql) ==
  [self EXCEPT !._raw_after = Append(@, <<clause, trim(raw_sql)>>)]

\* raw_before pushing to the list of raw_after
raw_before_as_after(self, clause, raw_sql) ==
  [self EXCEPT !._raw_after = Append(@, <<clause, trim(raw_sql)>>)]

raw_before(self, clause, raw_sql) ==
  [self EXCEPT !._raw_before = Append(@, <<clause, trim(raw_sql)>>)]

\* union pushing like the dedup setters do
union_unique(self, select) == [self EXCEPT !._union = push_unique(@, select)]

union(self, select) == [self EXCEPT !._union = Append(@, select)]

\* Arc::new(query) is an immutable shared value: the entry holds the value
with(self, name, query) == [self EXCEPT !._with = Append(@, <<trim(name), query>>)]

\* select without the uniqueness test
select_push(self, column) == [self EXCEPT !._select = Append(@, trim(column))]

\* defined after except, intersect and union, whose parameter is named select
select(self, column) == [self EXCEPT !._select = push_unique(@, trim(column))]


(***************************************************************************)
(* behavior::Concat for SelectBuilder: the rendering.                      *)
(***************************************************************************)
\* the texts of the raw_before / raw_after entries anchored to clause
raw_queries(raw_list, clause) ==
  LET I == {i \in 1..Len(raw_list) : raw_list[i][1] = clause}
      RECURSIVE pick(_)
      pick(i) == IF i > Len(raw_list) THEN <<>>
                 ELSE IF i \in I THEN <<raw_list[i][2]>> \o pick(i + 1)
                 ELSE pick(i + 1)
  IN pick(1)

concat_raw_before_after(self, query, fmts, clause, sql) ==
  LET raw_before_sql == join(raw_queries(self._raw_before, clause), fmts.space)
      raw_after_sql == join(raw_queries(self._raw_after, clause), fmts.space)
      space_after == IF raw_after_sql # <<>> THEN fmts.space ELSE <<>>
      space_before == IF raw_before_sql # <<>> THEN fmts.space ELSE <<>>
  IN query \o raw_before_sql \o space_before \o sql \o raw_after_sql \o space_after

concat_raw(self, query, fmts) ==
  IF self._raw = <<>> THEN query
  ELSE query \o join(self._raw, fmts.space) \o fmts.space \o fmts.lb

concat_select(self, query, fmts) ==
  LET sql == IF self._select # <<>>
               THEN <<"S", "E", "L", "E", "C", "T">> \o fmts.space
                    \o join(self._select, fmts.comma) \o fmts.space \o fmts.lb
               ELSE <<>>
  IN concat_raw_before_after(self, query, fmts, "Select", sql)

concat_from(self, query, fmts) ==
  LET sql == IF self._from # <<>>
               THEN <<"F", "R", "O", "M">> \o fmts.space
                    \o join(self._from, fmts.comma) \o fmts.space \o fmts.lb
               ELSE <<>>
  IN concat_raw_before_after(self, query, fmts, "From", sql)

concat_join(self, query, fmts) ==
  LET sql == IF self._join # <<>>
               THEN join(self._join, fmts.space \o fmts.lb) \o fmts.space \o fmts.lb
               ELSE <<>>
  IN concat_raw_before_after(self, query, fmts, "Join", sql)

concat_where(self, query, fmts) ==
  LET sql == IF self._where # <<>>
               THEN <<"W", "H", "E", "R", "E">> \o fmts.space
                    \o join(self._where, fmts.space \o <<"A", "N", "D">> \o fmts.space)
                    \o fmts.space \o fmts.lb
               ELSE <<>>
  IN concat_raw_before_after(self, query, fmts, "Where", sql)

concat_group_by(self, query, fmts) ==
  LET sql == IF self._group_by # <<>>
               THEN <<"G", "R", "O", "U", "P", " ", "B", "Y">> \o fmts.space
                    \o join(self._group_by, fmts.comma) \o fmts.space \o fmts.lb
               ELSE <<>>
  IN concat_raw_before_after(self, query, fmts, "GroupBy", sql)

concat_having(self, query, fmts) ==
  LET sql == IF self._having # <<>>
               THEN <<"H", "A", "V", "I", "N", "G">> \o fmts.space
                    \o join(self._having, fmts.space \o <<"A", "N", "D">> \o fmts.space)
                    \o fmts.space \o fmts.lb
               ELSE <<>>
  IN concat_raw_before_after(self, query, fmts, "Having", sql)

concat_order_by(self, query, fmts) ==
  LET sql == IF self._order_by # <<>>
               THEN <<"O", "R", "D", "E", "R", " ", "B", "Y">> \o fmts.space
                    \o join(self._order_by, fmts.comma) \o fmts.space \o fmts.lb
               ELSE <<>>
  IN concat_raw_before_after(self, query, fmts, "OrderBy", sql)

concat_limit(self, query, fmts) ==
  LET sql == IF self._limit # <<>>
               THEN <<"L", "I", "M", "I", "T">> \o fmts.space
                    \o self._limit \o fmts.space \o fmts.lb
               ELSE <<>>
  IN concat_raw_before_after(self, query, fmts, "Limit", sql)

concat_offset(self, query, fmts) ==
  LET sql == IF self._offset # <<>>
               THEN <<"O", "F", "F", "S", "E", "T">> \o fmts.space
                    \o self._offset \o fmts.space \o fmts.lb
               ELSE <<>>
  IN concat_raw_before_after(self, query, fmts, "Offset", sql)

RECURSIVE concat(_, _)

\* WITH name AS ( <query rendered one indent deeper> ), comma-joined
concat_with(self, query, fmts) ==
  LET inner_fmts == [fmts EXCEPT !.lb = fmts.lb \o fmts.indent]
      item(i) == self._with[i][1] \o fmts.space \o <<"A", "S">> \o fmts.space
                 \o <<"(">> \o fmts.lb \o fmts.indent
                 \o concat(self._with[i][2], inner_fmts)
                 \o fmts.lb \o <<")">>
      sql == IF self._with # <<>>
               THEN <<"W", "I", "T", "H">> \o fmts.space
                    \o join([i \in 1..Len(self._with) |-> item(i)], fmts.comma)
                    \o fmts.space \o fmts.lb
               ELSE <<>>
  IN concat_raw_before_after(self, query, fmts, "With", sql)

\* the operator keyword and operand list of a set operator
combinator_name(clause) ==
  CASE clause = "Except" -> <<"E", "X", "C", "E", "P", "T">>
    [] clause = "Intersect" -> <<"I", "N", "T", "E", "R", "S", "E", "C", "T">>
    [] clause = "Union" -> <<"U", "N", "I", "O", "N">>

combinator_list(self, clause) ==
  CASE clause = "Except" -> self._except
    [] clause = "Intersect" -> self._intersect
    [] clause = "Union" -> self._union

\* each operand rendered with the same algorithm, after its operator keyword
concat_combinator(self, query, fmts, clause) ==
  LET clause_list == combinator_list(self, clause)
      item(i) == combinator_name(clause) \o fmts.space \o fmts.lb
                 \o concat(clause_list[i], fmts)
      sql == IF clause_list # <<>>
               THEN join([i \in 1..Len(clause_list) |-> item(i)], fmts.space \o fmts.lb)
                    \o fmts.space \o fmts.lb
               ELSE <<>>
  IN concat_raw_before_after(self, query, fmts, clause, sql)

concat(self, fmts) ==
  LET q0 == concat_raw(self, <<>>, fmts)
      q1 == concat_with(self, q0, fmts)
      q2 == concat_select(self, q1, fmts)
      q3 == concat_from(self, q2, fmts)
      q4 == concat_join(self, q3, fmts)
      q5 == concat_where(self, q4, fmts)
      q6 == concat_group_by(self, q5, fmts)
      q7 == concat_having(self, q6, fmts)
      q8 == concat_order_by(self, q7, fmts)
      q9 == concat_limit(self, q8, fmts)
      q10 == concat_offset(self, q9, fmts)
      q11 == concat_combinator(self, q10, fmts, "Except")
      q12 == concat_combinator(self, q11, fmts, "Intersect")
      q13 == concat_combinator(self, q12, fmts, "Union")
  IN trim_end(q13)

(***************************************************************************)
(* fmt::colorize: the keywords wrapped in terminal colour codes.  ESC is   *)
(* the one character U+001B.                                               *)
(***************************************************************************)
ESC == "ESC"

KEYWORDS ==
  {<<"S", "E", "L", "E", "C", "T">>, <<"F", "R", "O", "M">>,
   <<"W", "H", "E", "R", "E">>, <<"A", "N", "D">>, <<"J", "O", "I", "N">>,
   <<"L", "I", "M", "I", "T">>, <<"O", "F", "F", "S", "E", "T">>,
   <<"W", "I", "T", "H">>, <<"U", "N", "I", "O", "N">>}

RECURSIVE colorize(_)
colorize(query) ==
  IF query = <<>> THEN <<>>
  ELSE LET hit == {k \in KEYWORDS : Len(k) <= Len(query) /\ SubSeq(query, 1, Len(k)) = k}
       IN IF hit # {}
            THEN LET k == CHOOSE k \in hit : TRUE
                 IN <<ESC, "[", "3", "4", "m">> \o k \o <<ESC, "[", "0", "m">>
                    \o colorize(SubSeq(query, Len(k) + 1, Len(query)))
            ELSE <<Head(query)>> \o colorize(Tail(query))

(***************************************************************************)
(* The terminal calls.                                                     *)
(***************************************************************************)
as_string(self) == concat(self, one_line)

\* debug returning a fresh builder
debug_default(self) == new

\* the builder debug returns, and the line it prints
debug(self) == self
debug_line(self) == colorize(concat(self, multi_line))

\* the builder print returns, and the line it prints
print(self) == self
print_line(self) == colorize(concat(self, one_line))

\* Display::fmt and Debug::fmt write these
display_fmt(self) == as_string(self)
debug_fmt(self) == colorize(concat(self, multi_line))


(***************************************************************************)
(* The arguments the calls are made with.                                  *)
(***************************************************************************)
Texts == {<<"a">>, <<" ", "a", "\t">>, <<"b">>}

Nums == {<<"1", "0">>, <<" ", "2", "0", " ">>, <<"3", "0">>, <<" ">>}

RawTexts == {<<"x">>, <<" ", "y">>}

Names == {<<"n">>, <<"m", " ">>}

Query1 == from(select(new, <<"c">>), <<"t">>)

Query2 == union(limit(where_clause(select(new, <<"d">>), <<"e">>), <<"5">>), Query1)

Queries == {Query1, Query2}

(***************************************************************************)
(* Clone (derived): a new builder holding copies of the fields.            *)
(***************************************************************************)
\* a copy that is the same storage as the original
clone_shared(h, a) == [heap |-> h, addr |-> a]

clone(h, a) == [heap |-> Append(h, h[a]), addr |-> Len(h) + 1]

(***************************************************************************)
(* State.                                                                  *)
(***************************************************************************)
LogKeys ==
  {"_select", "_from", "_join", "_where", "_group_by", "_having", "_order_by",
   "_raw", "_limit", "_offset", "_raw_before", "_raw_after", "_with",
   "combinator", "terminal"}

builder == heap[cur]

InitFuel(n) ==
  /\ heap = <<new>>
  /\ cur = 1
  /\ originals = <<>>
  /\ stdout = <<>>
  /\ returned = <<>>
  /\ log = [k \in LogKeys |-> <<>>]
  /\ fuel = n

\* the chain starts from SelectBuilder::new().select("a").limit("10")
InitPopulated(n) ==
  /\ heap = <<limit(select(new, <<"a">>), <<"1", "0">>)>>
  /\ cur = 1
  /\ originals = <<>>
  /\ stdout = <<>>
  /\ returned = <<>>
  /\ log = [k \in LogKeys |->
             CASE k = "_select" -> <<<<"a">>>>
               [] k = "_limit" -> <<<<"1", "0">>>>
               [] OTHER -> <<>>]
  /\ fuel = n

\* a setter call on the builder: self = self.setter(arg)
Call(next, key, arg) ==
  /\ fuel > 0
  /\ heap' = [heap EXCEPT ![cur] = next]
  /\ log' = [log EXCEPT ![key] = Append(@, arg)]
  /\ fuel' = fuel - 1
  /\ UNCHANGED <<cur, originals, stdout, returned>>

And == \E condition \in Texts : Call(and(builder, condition), "_where", condition)

Except == \E q \in Queries : Call(except(builder, q), "combinator", <<"Except", q>>)

From == \E tables \in Texts : Call(from(builder, tables), "_from", tables)

GroupBy == \E column \in Texts : Call(group_by(builder, column), "_group_by", column)

Having == \E condition \in Texts : Call(having(builder, condition), "_having", condition)

CrossJoin == \E table \in Texts : Call(cross_join(builder, table), "_join", <<"CROSS", table>>)

InnerJoin == \E table \in Texts : Call(inner_join(builder, table), "_join", <<"INNER", table>>)

LeftJoin == \E table \in Texts : Call(left_join(builder, table), "_join", <<"LEFT", table>>)

RightJoin == \E table \in Texts : Call(right_join(builder, table), "_join", <<"RIGHT", table>>)

Intersect == \E q \in Queries : Call(intersect(builder, q), "combinator", <<"Intersect", q>>)

Limit == \E num \in Nums : Call(limit(builder, num), "_limit", num)

Offset == \E num \in Nums : Call(offset(builder, num), "_offset", num)

OrderBy == \E column \in Texts : Call(order_by(builder, column), "_order_by", column)

Raw == \E raw_sql \in RawTexts : Call(raw(builder, raw_sql), "_raw", raw_sql)

RawAfterIn(clauses) ==
  \E clause \in clauses, raw_sql \in RawTexts :
    Call(raw_after(builder, clause, raw_sql), "_raw_after", <<clause, raw_sql>>)

RawAfter == RawAfterIn(SelectClause)

RawBeforeIn(clauses) ==
  \E clause \in clauses, raw_sql \in RawTexts :
    Call(raw_before(builder, clause, raw_sql), "_raw_before", <<clause, raw_sql>>)

RawBefore == RawBeforeIn(SelectClause)

Select == \E column \in Texts : Call(select(builder, column), "_select", column)

Union == \E q \in Queries : Call(union(builder, q), "combinator", <<"Union", q>>)

WhereClause ==
  \E condition \in Texts : Call(where_clause(builder, condition), "_where", condition)

With ==
  \E name \in Names, q \in Queries : Call(with(builder, name, q), "_with", <<name, q>>)

\* let copy = builder.clone(); the chain goes on with the copy
Clone ==
  /\ fuel > 0
  /\ heap' = clone(heap, cur).heap
  /\ cur' = clone(heap, cur).addr
  /\ originals' = Append(originals, [addr |-> cur, sql |-> as_string(builder)])
  /\ fuel' = fuel - 1
  /\ UNCHANGED <<stdout, returned, log>>

Debug ==
  /\ fuel > 0
  /\ stdout' = Append(stdout, debug_line(builder))
  /\ heap' = [heap EXCEPT ![cur] = debug(builder)]
  /\ log' = [log EXCEPT !["terminal"] = Append(@, "debug")]
  /\ fuel' = fuel - 1
  /\ UNCHANGED <<cur, originals, returned>>

PrintOneLine ==
  /\ fuel > 0
  /\ stdout' = Append(stdout, print_line(builder))
  /\ heap' = [heap EXCEPT ![cur] = print(builder)]
  /\ log' = [log EXCEPT !["terminal"] = Append(@, "print")]
  /\ fuel' = fuel - 1
  /\ UNCHANGED <<cur, originals, returned>>

\* as_string, Display::fmt and Debug::fmt take &self
AsString ==
  /\ fuel > 0
  /\ returned' = as_string(builder)
  /\ log' = [log EXCEPT !["terminal"] = Append(@, "as_string")]
  /\ fuel' = fuel - 1
  /\ UNCHANGED <<heap, cur, originals, stdout>>

Display ==
  /\ fuel > 0
  /\ stdout' = Append(stdout, display_fmt(builder))
  /\ log' = [log EXCEPT !["terminal"] = Append(@, "display")]
  /\ fuel' = fuel - 1
  /\ UNCHANGED <<heap, cur, originals, returned>>

DebugFmt ==
  /\ fuel > 0
  /\ stdout' = Append(stdout, debug_fmt(builder))
  /\ log' = [log EXCEPT !["terminal"] = Append(@, "debug_fmt")]
  /\ fuel' = fuel - 1
  /\ UNCHANGED <<heap, cur, originals, returned>>

(***************************************************************************)
(* Specifications: the chains of calls a claim is about.                   *)
(***************************************************************************)
InitDedup == InitFuel(MaxCalls)
NextDedup ==
  \/ Select \/ From \/ WhereClause \/ And \/ GroupBy \/ Having \/ OrderBy \/ Raw
  \/ CrossJoin \/ InnerJoin \/ LeftJoin \/ RightJoin
SpecDedup == InitDedup /\ [][NextDedup]_vars

InitScalar == InitFuel(MaxScalarCalls)
NextScalar == Limit \/ Offset \/ Select
SpecScalar == InitScalar /\ [][NextScalar]_vars

InitRaw == InitPopulated(MaxRawCalls)
NextRaw == Raw \/ RawBefore \/ RawAfter \/ WhereClause
SpecRaw == InitRaw /\ [][NextRaw]_vars

InitSetOp == InitFuel(MaxSetOpCalls)
NextSetOp == Union \/ Intersect \/ Except \/ Select \/ From
SpecSetOp == InitSetOp /\ [][NextSetOp]_vars

\* the chain starts from select_zipcode of the test select_builder_should_be_cloneable
SelectZipcode ==
  raw_after(
    where_clause(
      raw_before(from(select(raw(new, <<"x">>), <<"a">>), <<"b">>), "Where", <<"x">>),
      <<"a">>),
    "Where", <<" ", "y">>)

InitClone ==
  /\ heap = <<SelectZipcode>>
  /\ cur = 1
  /\ originals = <<>>
  /\ stdout = <<>>
  /\ returned = <<>>
  /\ log = [k \in LogKeys |->
             CASE k \in {"_select", "_where"} -> <<<<"a">>>>
               [] k = "_from" -> <<<<"b">>>>
               [] k = "_raw" -> <<<<"x">>>>
               [] k = "_raw_before" -> <<<<"Where", <<"x">>>>>>
               [] k = "_raw_after" -> <<<<"Where", <<" ", "y">>>>>>
               [] OTHER -> <<>>]
  /\ fuel = MaxCloneCalls
NextClone ==
  \/ Clone \/ Select \/ WhereClause \/ Limit \/ Raw \/ With
  \/ RawBeforeIn({"Where"}) \/ RawAfterIn({"Select", "Where"})
SpecClone == InitClone /\ [][NextClone]_vars

InitTerminal == InitFuel(MaxTerminalCalls)
NextTerminal ==
  \/ Debug \/ PrintOneLine \/ AsString \/ Display \/ DebugFmt
  \/ Select \/ From \/ WhereClause \/ Limit
SpecTerminal == InitTerminal /\ [][NextTerminal]_vars

Init == InitFuel(MaxAllCalls)
Next ==
  \/ NextDedup \/ NextScalar \/ RawBefore \/ RawAfter \/ With
  \/ Union \/ Intersect \/ Except
Spec == Init /\ [][Next]_vars


(***************************************************************************)
(* What the claims are stated with.                                        *)
(***************************************************************************)
\* the lists the dedup setters push to
DedupFields ==
  {"_select", "_from", "_join", "_where", "_group_by", "_having", "_order_by", "_raw"}

KindText(kind) ==
  CASE kind = "CROSS" -> <<"C", "R", "O", "S", "S">>
    [] kind = "INNER" -> <<"I", "N", "N", "E", "R">>
    [] kind = "LEFT" -> <<"L", "E", "F", "T">>
    [] kind = "RIGHT" -> <<"R", "I", "G", "H", "T">>

\* the fragment a logged call of a dedup setter stands for
Fragment(f, arg) ==
  IF f = "_join"
    THEN KindText(arg[1]) \o <<" ", "J", "O", "I", "N", " ">> \o trim(arg[2])
    ELSE trim(arg)

Fragments(f) == [i \in 1..Len(log[f]) |-> Fragment(f, log[f][i])]

Contains(list, value) == \E i \in 1..Len(list) : list[i] = value

NoDuplicates(list) == \A i, j \in 1..Len(list) : list[i] = list[j] => i = j

\* the elements of list at their first place, later repetitions dropped
FirstOccurrences(list) ==
  LET RECURSIVE pick(_)
      pick(i) == IF i > Len(list) THEN <<>>
                 ELSE IF \E j \in 1..(i - 1) : list[j] = list[i] THEN pick(i + 1)
                 ELSE <<list[i]>> \o pick(i + 1)
  IN pick(1)

\* the call a step made targets list f
Called(f) == log'[f] # log[f]

LastArg(f) == log'[f][Len(log'[f])]

\* C1, the step: a push of a fragment already present changes nothing
C1_DuplicateStep ==
  \A f \in DedupFields :
    (Called(f) /\ Contains(builder[f], Fragment(f, LastArg(f))))
      => /\ builder' = builder
         /\ as_string(builder') = as_string(builder)

\* C1, the state: no clause holds two equal fragments
C1_NoDuplicates == \A f \in DedupFields : NoDuplicates(builder[f])

(***************************************************************************)
(* C1: a dedup setter called with a text whose fragment is already in its  *)
(* clause (pushed at any earlier point) leaves the builder and its         *)
(* as_string() unchanged, and no clause ever holds two equal fragments.    *)
(***************************************************************************)
C1_DuplicatePushIsNoOp == [][C1_DuplicateStep]_vars /\ []C1_NoDuplicates

\* a fragment pushed, another pushed after it, and the first pushed again
C1_Witness ==
  \E f \in DedupFields :
    /\ Len(log[f]) = 3
    /\ Fragment(f, log[f][1]) = Fragment(f, log[f][3])
    /\ Fragment(f, log[f][1]) # Fragment(f, log[f][2])
    /\ Len(builder[f]) = 2

ClauseKeyword(f) ==
  CASE f = "_select" -> <<"S", "E", "L", "E", "C", "T", " ">>
    [] f = "_from" -> <<"F", "R", "O", "M", " ">>
    [] f = "_where" -> <<"W", "H", "E", "R", "E", " ">>
    [] f = "_group_by" -> <<"G", "R", "O", "U", "P", " ", "B", "Y", " ">>
    [] f = "_having" -> <<"H", "A", "V", "I", "N", "G", " ">>
    [] f = "_order_by" -> <<"O", "R", "D", "E", "R", " ", "B", "Y", " ">>
    [] OTHER -> <<>>

ClauseSeparator(f) ==
  CASE f \in {"_select", "_from", "_group_by", "_order_by"} -> <<",", " ">>
    [] f \in {"_where", "_having"} -> <<" ", "A", "N", "D", " ">>
    [] OTHER -> <<" ">>

\* the one-line text of clause f holding the fragments list
ClauseText(f, list) == ClauseKeyword(f) \o join(list, ClauseSeparator(f))

(***************************************************************************)
(* C2: the fragments of a clause are in the builder, and in as_string(),   *)
(* in the order of their first push; a repeated push moves nothing.        *)
(***************************************************************************)
C2_FirstPushOrder ==
  \A f \in DedupFields :
    /\ builder[f] = FirstOccurrences(Fragments(f))
    /\ log[f] # <<>> =>
         IsInfix(ClauseText(f, FirstOccurrences(Fragments(f))), as_string(builder))

\* two fragments, the first pushed again after the second
C2_Witness ==
  \E f \in DedupFields :
    /\ Len(log[f]) = 3
    /\ Fragment(f, log[f][1]) = Fragment(f, log[f][3])
    /\ builder[f] = <<Fragment(f, log[f][1]), Fragment(f, log[f][2])>>
    /\ Len(FirstOccurrences(Fragments(f))) = 2


JoinCall(i) == <<log["_join"][i][1], trim(log["_join"][i][2])>>

JoinCalls == [i \in 1..Len(log["_join"]) |-> JoinCall(i)]

JoinText(call) == KindText(call[1]) \o <<" ", "J", "O", "I", "N", " ">> \o call[2]

(***************************************************************************)
(* C10: the four join helpers share the JOIN list and dedup on the text    *)
(* '<KIND> JOIN <trimmed table>': two join calls give the same fragment    *)
(* exactly when kind and trimmed table agree, a repeated call is a no-op,  *)
(* and joins of different kinds are rendered in call order.                *)
(***************************************************************************)
C10_JoinDedupOnComposedText ==
  LET distinct == FirstOccurrences(JoinCalls)
      texts == [i \in 1..Len(distinct) |-> JoinText(distinct[i])]
  IN /\ builder._join = texts
     /\ \A i, j \in 1..Len(JoinCalls) :
          (\E k \in 1..Len(builder._join) :
             /\ builder._join[k] = JoinText(JoinCalls[i])
             /\ builder._join[k] = JoinText(JoinCalls[j]))
            <=> JoinCalls[i] = JoinCalls[j]
     /\ texts # <<>> => IsInfix(join(texts, <<" ">>), as_string(builder))

\* one table under two kinds, and one of the calls repeated with padding
C10_Witness ==
  /\ Len(log["_join"]) = 3
  /\ log["_join"][1][1] # log["_join"][2][1]
  /\ JoinCall(1)[2] = JoinCall(2)[2]
  /\ JoinCall(3) = JoinCall(1)
  /\ log["_join"][3] # log["_join"][1]
  /\ Len(builder._join) = 2

LastTrimmed(f) == IF log[f] = <<>> THEN <<>> ELSE trim(log[f][Len(log[f])])

\* the earlier arguments of the setter of f that no current value repeats
Overwritten(f) ==
  {trim(log[f][i]) : i \in 1..(Len(log[f]) - 1)}
    \ {<<>>, LastTrimmed("_limit"), LastTrimmed("_offset")}

(***************************************************************************)
(* C3: limit and offset overwrite: the stored value is the trimmed         *)
(* argument of the most recent call, earlier values leave no trace in the  *)
(* render, and neither setter changes the other's value.                   *)
(***************************************************************************)
C3_ScalarOverwrite ==
  LET sql == as_string(builder)
      LIMIT == <<"L", "I", "M", "I", "T", " ">>
      OFFSET == <<"O", "F", "F", "S", "E", "T", " ">>
  IN /\ builder._limit = LastTrimmed("_limit")
     /\ builder._offset = LastTrimmed("_offset")
     /\ Occurrences(LIMIT, sql) = (IF LastTrimmed("_limit") = <<>> THEN 0 ELSE 1)
     /\ Occurrences(OFFSET, sql) = (IF LastTrimmed("_offset") = <<>> THEN 0 ELSE 1)
     /\ LastTrimmed("_limit") # <<>> => IsInfix(LIMIT \o LastTrimmed("_limit"), sql)
     /\ LastTrimmed("_offset") # <<>> => IsInfix(OFFSET \o LastTrimmed("_offset"), sql)
     /\ \A f \in {"_limit", "_offset"} : \A old \in Overwritten(f) : ~IsInfix(old, sql)

\* limit set twice to different values, with an offset call in between or after
C3_Witness ==
  /\ Len(log["_limit"]) >= 2
  /\ log["_offset"] # <<>>
  /\ trim(log["_limit"][1]) # LastTrimmed("_limit")
  /\ LastTrimmed("_limit") # <<>>
  /\ LastTrimmed("_offset") # <<>>
  /\ LastTrimmed("_offset") # LastTrimmed("_limit")
  /\ Overwritten("_limit") # {}


(***************************************************************************)
(* Parts of a builder: the clauses in rendering order, the field of each.  *)
(***************************************************************************)
ClauseOrder ==
  <<"With", "Select", "From", "Join", "Where", "GroupBy", "Having", "OrderBy",
    "Limit", "Offset", "Except", "Intersect", "Union">>

Position(clause) == CHOOSE i \in 1..Len(ClauseOrder) : ClauseOrder[i] = clause

Field(clause) ==
  CASE clause = "With" -> "_with"
    [] clause = "Select" -> "_select"
    [] clause = "From" -> "_from"
    [] clause = "Join" -> "_join"
    [] clause = "Where" -> "_where"
    [] clause = "GroupBy" -> "_group_by"
    [] clause = "Having" -> "_having"
    [] clause = "OrderBy" -> "_order_by"
    [] clause = "Limit" -> "_limit"
    [] clause = "Offset" -> "_offset"
    [] clause = "Except" -> "_except"
    [] clause = "Intersect" -> "_intersect"
    [] clause = "Union" -> "_union"

Anchored(raw_list, clauses) == SelectSeq(raw_list, LAMBDA e : e[1] \in clauses)

\* b with only the bodies and the raw anchors of clauses, and the raw prefix if asked
Part(b, clauses, prefix) ==
  [f \in DOMAIN b |->
     CASE f = "_raw" -> IF prefix THEN b[f] ELSE <<>>
       [] f = "_raw_before" -> Anchored(b[f], clauses)
       [] f = "_raw_after" -> Anchored(b[f], clauses)
       [] OTHER -> IF \E c \in clauses : Field(c) = f THEN b[f] ELSE <<>>]

\* the body of one clause alone
Body(b, clause) == [new EXCEPT ![Field(clause)] = b[Field(clause)]]

\* the trimmed texts of the logged raw_before / raw_after calls anchored to clause
LoggedTexts(f, clause) ==
  LET calls == SelectSeq(log[f], LAMBDA e : e[1] = clause)
  IN [i \in 1..Len(calls) |-> trim(calls[i][2])]

\* the non-empty texts joined by single spaces
Words(texts) == join(SelectSeq(texts, LAMBDA t : t # <<>>), <<" ">>)

HasAnchors(clause) ==
  LoggedTexts("_raw_before", clause) \o LoggedTexts("_raw_after", clause) # <<>>

(***************************************************************************)
(* C6: the raw_before / raw_after entries anchored to a clause that was    *)
(* never populated are still rendered, at the clause's position in the     *)
(* fixed clause order.                                                     *)
(***************************************************************************)
C6_AnchorsOfEmptyClause ==
  \A clause \in SelectClause :
    (HasAnchors(clause) /\ builder[Field(clause)] = <<>>) =>
      LET earlier == {c \in SelectClause : Position(c) < Position(clause)}
          later == {c \in SelectClause : Position(c) > Position(clause)}
      IN as_string(builder) =
           Words(<<as_string(Part(builder, earlier, TRUE))>>
                 \o LoggedTexts("_raw_before", clause)
                 \o LoggedTexts("_raw_after", clause)
                 \o <<as_string(Part(builder, later, FALSE))>>)

\* an anchor on a clause with no body, between two populated clauses
C6_Witness ==
  \E clause \in SelectClause :
    /\ builder[Field(clause)] = <<>>
    /\ HasAnchors(clause)
    /\ \E c \in SelectClause : Position(c) < Position(clause) /\ builder[Field(c)] # <<>>
    /\ \E c \in SelectClause : Position(c) > Position(clause) /\ builder[Field(c)] # <<>>

LoggedEntries(f) == [i \in 1..Len(log[f]) |-> <<log[f][i][1], trim(log[f][i][2])>>]

(***************************************************************************)
(* C7: raw_before and raw_after never dedup and keep call order: n calls   *)
(* leave n entries in call order, rendered in that order before (after)    *)
(* the clause block; raw dedups.                                           *)
(***************************************************************************)
C7_RawAnchorsKeepEveryCall ==
  /\ builder._raw_before = LoggedEntries("_raw_before")
  /\ builder._raw_after = LoggedEntries("_raw_after")
  /\ builder._raw = FirstOccurrences(Fragments("_raw"))
  /\ \A clause \in {c \in SelectClause : HasAnchors(c)} :
       IsInfix(Words(LoggedTexts("_raw_before", clause)
                     \o <<as_string(Body(builder, clause))>>
                     \o LoggedTexts("_raw_after", clause)),
               as_string(builder))

\* the same (clause, text) anchored twice, or two texts on one clause
C7_Witness ==
  \E f \in {"_raw_before", "_raw_after"} :
    /\ Len(log[f]) >= 2
    /\ log[f][1][1] = log[f][2][1]
    /\ Len(builder[f]) = Len(log[f])


\* the one-line text of operands, each after its operator keyword
OperandsText(calls) ==
  Words([i \in 1..Len(calls) |->
           combinator_name(calls[i][1]) \o <<" ">> \o as_string(calls[i][2])])

CallsOf(kind) == SelectSeq(log["combinator"], LAMBDA c : c[1] = kind)

OperandsOf(kind) == [i \in 1..Len(CallsOf(kind)) |-> CallsOf(kind)[i][2]]

\* C9 as stated: the operands of union, intersect and except calls are rendered,
\* each after its own keyword, in the order in which the calls were made
C9_RenderedInCallOrder ==
  log["combinator"] # <<>> =>
    IsInfix(OperandsText(log["combinator"]), as_string(builder))

(***************************************************************************)
(* C9: union, intersect and except append their operand, never deduped.    *)
(* As claimed, the operands are rendered in the order of the calls across  *)
(* the three operators.  The builder keeps one list per operator, so the   *)
(* call order between operators is not in its state: operands are rendered *)
(* operator by operator, and in call order within one operator.            *)
(***************************************************************************)
C9_AppendedPerOperator ==
  /\ builder._union = OperandsOf("Union")
  /\ builder._intersect = OperandsOf("Intersect")
  /\ builder._except = OperandsOf("Except")
  /\ \A kind \in {"Union", "Intersect", "Except"} :
       CallsOf(kind) # <<>> => IsInfix(OperandsText(CallsOf(kind)), as_string(builder))

\* one operand attached twice to an operator, another operator called in between
C9_Witness ==
  /\ Len(log["combinator"]) = 3
  /\ log["combinator"][1] = log["combinator"][3]
  /\ log["combinator"][2][1] # log["combinator"][1][1]
  /\ Len(combinator_list(builder, log["combinator"][1][1])) = 2


(***************************************************************************)
(* Calls as values: [op, args].                                            *)
(***************************************************************************)
Apply(b, call) ==
  LET a == call.args
  IN CASE call.op = "and" -> and(b, a[1])
       [] call.op = "except" -> except(b, a[1])
       [] call.op = "from" -> from(b, a[1])
       [] call.op = "group_by" -> group_by(b, a[1])
       [] call.op = "having" -> having(b, a[1])
       [] call.op = "cross_join" -> cross_join(b, a[1])
       [] call.op = "inner_join" -> inner_join(b, a[1])
       [] call.op = "left_join" -> left_join(b, a[1])
       [] call.op = "right_join" -> right_join(b, a[1])
       [] call.op = "intersect" -> intersect(b, a[1])
       [] call.op = "limit" -> limit(b, a[1])
       [] call.op = "offset" -> offset(b, a[1])
       [] call.op = "order_by" -> order_by(b, a[1])
       [] call.op = "raw" -> raw(b, a[1])
       [] call.op = "raw_after" -> raw_after(b, a[1], a[2])
       [] call.op = "raw_before" -> raw_before(b, a[1], a[2])
       [] call.op = "select" -> select(b, a[1])
       [] call.op = "union" -> union(b, a[1])
       [] call.op = "where_clause" -> where_clause(b, a[1])
       [] call.op = "with" -> with(b, a[1], a[2])

\* the clause kind a setter targets: the list of the builder it writes, the
\* join helpers sharing JOIN, and / where_clause WHERE, and the three set
\* operators being the one kind the fixed clause order ends with
Kind(op) ==
  CASE op \in {"and", "where_clause"} -> "Where"
    [] op \in {"cross_join", "inner_join", "left_join", "right_join"} -> "Join"
    [] op \in {"union", "intersect", "except"} -> "SetOperators"
    [] OTHER -> op

\* the calls the setters are tried with
Calls ==
  [op : {"and", "from", "group_by", "having", "cross_join", "inner_join", "left_join",
         "right_join", "order_by", "select", "where_clause"},
   args : {<<t>> : t \in Texts}]
  \cup [op : {"limit", "offset"}, args : {<<n>> : n \in Nums}]
  \cup [op : {"raw"}, args : {<<t>> : t \in RawTexts}]
  \cup [op : {"raw_before", "raw_after"}, args : {"Select", "Where", "Union"} \X RawTexts]
  \cup [op : {"with"}, args : Names \X Queries]
  \cup [op : {"union", "intersect", "except"}, args : {<<q>> : q \in Queries}]

\* the one-line text of a clause: its raw_before texts, its body, its raw_after texts
Segment(b, clause) ==
  Words([i \in 1..Len(Anchored(b._raw_before, {clause})) |->
           Anchored(b._raw_before, {clause})[i][2]]
        \o <<as_string(Body(b, clause))>>
        \o [i \in 1..Len(Anchored(b._raw_after, {clause})) |->
              Anchored(b._raw_after, {clause})[i][2]])

(***************************************************************************)
(* C8: the rendered clause order does not depend on call order: two        *)
(* setters that target different clause kinds, applied to a builder in     *)
(* either order, give the same builder and so the same as_string(), which  *)
(* is the raw prefix and then the clauses' texts in the fixed order.       *)
(***************************************************************************)
C8_SettersOfDifferentClausesCommute ==
  /\ \A c1 \in Calls :
       LET b1 == Apply(builder, c1)
           k1 == Kind(c1.op)
       IN \A c2 \in Calls :
            Kind(c2.op) # k1 => Apply(b1, c2) = Apply(Apply(builder, c2), c1)
  /\ as_string(builder) =
       Words(<<join(builder._raw, <<" ">>)>>
             \o [i \in 1..Len(ClauseOrder) |-> Segment(builder, ClauseOrder[i])])

\* a populated builder, a setter that repeats a fragment and one of another clause
C8_Witness ==
  /\ builder # new
  /\ \E c1, c2 \in Calls :
       /\ Kind(c1.op) # Kind(c2.op)
       /\ Apply(builder, c1) = builder
       /\ Apply(builder, c2) # builder
       /\ as_string(Apply(Apply(builder, c1), c2)) # as_string(builder)


(***************************************************************************)
(* C4: setters applied to a clone never change the builder the clone was   *)
(* taken from: its as_string() stays what it was when the clone was taken. *)
(***************************************************************************)
C4_OriginalUnchanged ==
  \A i \in 1..Len(originals) :
    as_string(heap[originals[i].addr]) = originals[i].sql

\* an original with raw entries and an attached query, and its clone mutated
C4_Witness ==
  \E i \in 1..Len(originals) :
    LET original == heap[originals[i].addr]
    IN /\ originals[i].addr # cur
       /\ original._raw # <<>>
       /\ original._raw_before # <<>>
       /\ original._raw_after # <<>>
       /\ original._with # <<>>
       /\ as_string(builder) # as_string(original)

\* the call a log entry of list key records
CallOf(key, arg) ==
  CASE key = "_join" ->
         [op |-> CASE arg[1] = "CROSS" -> "cross_join"
                   [] arg[1] = "INNER" -> "inner_join"
                   [] arg[1] = "LEFT" -> "left_join"
                   [] arg[1] = "RIGHT" -> "right_join",
          args |-> <<arg[2]>>]
    [] key = "combinator" ->
         [op |-> CASE arg[1] = "Union" -> "union"
                   [] arg[1] = "Intersect" -> "intersect"
                   [] arg[1] = "Except" -> "except",
          args |-> <<arg[2]>>]
    [] key = "_raw_before" -> [op |-> "raw_before", args |-> arg]
    [] key = "_raw_after" -> [op |-> "raw_after", args |-> arg]
    [] key = "_with" -> [op |-> "with", args |-> arg]
    [] key = "_where" -> [op |-> "where_clause", args |-> <<arg>>]
    [] key = "_select" -> [op |-> "select", args |-> <<arg>>]
    [] key = "_from" -> [op |-> "from", args |-> <<arg>>]
    [] key = "_group_by" -> [op |-> "group_by", args |-> <<arg>>]
    [] key = "_having" -> [op |-> "having", args |-> <<arg>>]
    [] key = "_order_by" -> [op |-> "order_by", args |-> <<arg>>]
    [] key = "_raw" -> [op |-> "raw", args |-> <<arg>>]
    [] key = "_limit" -> [op |-> "limit", args |-> <<arg>>]
    [] key = "_offset" -> [op |-> "offset", args |-> <<arg>>]

RECURSIVE Replay(_, _, _)
Replay(b, key, i) ==
  IF i > Len(log[key]) THEN b
  ELSE Replay(Apply(b, CallOf(key, log[key][i])), key, i + 1)

SetterKeys ==
  <<"_select", "_from", "_join", "_where", "_group_by", "_having", "_order_by",
    "_raw", "_limit", "_offset", "_raw_before", "_raw_after", "_with", "combinator">>

RECURSIVE ReplayAll(_, _)
ReplayAll(b, k) ==
  IF k > Len(SetterKeys) THEN b ELSE ReplayAll(Replay(b, SetterKeys[k], 1), k + 1)

\* the builder the logged setter calls build, terminal calls left out
Rebuilt == ReplayAll(new, 1)

(***************************************************************************)
(* C5: debug() and print() return the builder unchanged and as_string(),   *)
(* Display and Debug do not modify it: the builder is what the setter      *)
(* calls alone build, wherever terminal calls were inserted in the chain.  *)
(***************************************************************************)
C5_TerminalCallsChangeNothing ==
  /\ builder = Rebuilt
  /\ as_string(builder) = as_string(Rebuilt)
  /\ Len(stdout) = Cardinality({i \in 1..Len(log["terminal"]) : log["terminal"][i] # "as_string"})

\* debug() or print() called on a populated builder, and a setter called after it
C5_Witness ==
  /\ log["terminal"] # <<>>
  /\ log["terminal"][1] \in {"debug", "print"}
  /\ stdout[1] # <<>>
  /\ stdout[1] \notin {debug_line(builder), print_line(builder)}

=============================================================================
